---------------------------- MODULE Spec2Model ----------------------------
(***************************************************************************)
(* x/84 terminal widgets: the scrolling Pager (x84/bbs/pager.py) and the   *)
(* two-state Selector (x84/bbs/selector.py).                               *)
(*                                                                         *)
(* A behaviour follows the life of one widget instance (widget is "Pager"  *)
(* or "Selector"): its construction arguments are drawn in Init, and each  *)
(* step is one call of a public method by the single thread that owns the  *)
(* instance.  Text is a sequence of one-character strings; a render string *)
(* is a sequence of tokens, the empty sequence being Python's u''.         *)
(***************************************************************************)
EXTENDS Integers, Sequences, FiniteSets, TLC

VARIABLES
    widget,          \* "Pager" | "Selector": the class of the instance
    keyset,          \* self.keyset: action name -> list of codes
    quit,            \* self._quit
    moved,           \* Pager.moved / Selector._moved
    content,         \* Pager._content: list of wrapped lines
    position,        \* Pager._position
    position_last,   \* Pager._position_last
    visible_height,  \* AnsiWindow.visible_height of the pager
    visible_width,   \* AnsiWindow.visible_width of the pager
    left,            \* Selector._left
    right,           \* Selector._right
    selection,       \* Selector._selection
    selected,        \* Selector._selected
    width,           \* AnsiWindow.width of the selector
    reading,         \* TRUE while the caller is blocked inside read()
    retval,          \* what the last finished read() returned
    op,              \* the last call made on the instance, with its arguments
    rstr,            \* the string that call returned (or echoed last, in read)
    raised,          \* the exception that call raised, NoError when it returned
    lists,           \* the heap of key lists: address -> list of codes
    instances,       \* the widgets constructed so far: class and keyset dict
    raw_text,        \* the text handed to the line wrapper
    irc              \* the IRC door: the run of establish_connection()

vars == <<widget, keyset, quit, moved, content, position, position_last,
          visible_height, visible_width, left, right, selection, selected,
          width, reading, retval, op, rstr, raised, lists, instances, raw_text,
          irc>>

pagerVars == <<content, position, position_last, visible_height, visible_width>>
selectorVars == <<left, right, selection, selected, width>>
keysetVars == <<lists, instances>>

-----------------------------------------------------------------------------
(* Bounds of the model. *)

MaxLines == 3        \* longest line buffer explored
MaxHeight == 2       \* largest visible_height explored
MaxWidth == 3        \* largest visible_width explored
MaxStep == 2         \* largest step count passed to move_*(num)
MaxInstances == 3    \* most widgets constructed in one process
MaxText == 4         \* longest text handed to the line wrapper on its own
MaxPageLines == 5    \* longest buffer of the paging runs
MaxPageHeight == 3   \* largest visible_height of the paging runs
MaxDispatched == 3   \* most server events dispatched during one handshake
MaxTyped == 2        \* most keys typed during one handshake

Heights == 0..MaxHeight
Widths == 2..MaxWidth
Steps == 1..MaxStep

-----------------------------------------------------------------------------
(* Helpers standing for Python built-ins. *)

Max(a, b) == IF a >= b THEN a ELSE b

Min(a, b) == IF a <= b THEN a ELSE b

\* a slice bound as Python reads it: negative counts from the end, then clipped
PyBound(i, n) == IF i < 0 THEN Max(0, n + i) ELSE Min(i, n)

\* s[i:j] (Python slice, 0-based)
PySlice(s, i, j) == SubSeq(s, PyBound(i, Len(s)) + 1, PyBound(j, Len(s)))

\* range(a, b) as a sequence
PyRange(a, b) == [k \in 1..Max(0, b - a) |-> a + k - 1]

\* x in list
InList(x, list) == \E k \in 1..Len(list) : list[k] = x

IsSpace(c) == c \in {" ", "\n"}

\* unicode.strip() is non-empty
NonBlank(line) == \E k \in 1..Len(line) : ~IsSpace(line[k])

\* unicode.splitlines(): break at every newline, no trailing empty line
RECURSIVE SplitLinesFrom(_, _)
SplitLinesFrom(ucs, cur) ==
    IF ucs = <<>> THEN (IF cur = <<>> THEN <<>> ELSE <<cur>>)
    ELSE IF Head(ucs) = "\n" THEN <<cur>> \o SplitLinesFrom(Tail(ucs), <<>>)
    ELSE SplitLinesFrom(Tail(ucs), Append(cur, Head(ucs)))

SplitLines(ucs) == SplitLinesFrom(ucs, <<>>)

-----------------------------------------------------------------------------
(* term.wrap(line, width): the terminal's word-wrap primitive, which is    *)
(* Python's textwrap.wrap with its defaults (greedy fill, whitespace       *)
(* dropped at line breaks, words longer than the width broken).            *)

\* chunk.strip() == ''
BlankChunk(chunk) == ~NonBlank(chunk)

\* TextWrapper._split: maximal runs of whitespace and of non-whitespace
RECURSIVE ChunksFrom(_, _)
ChunksFrom(line, cur) ==
    IF line = <<>> THEN (IF cur = <<>> THEN <<>> ELSE <<cur>>)
    ELSE IF cur = <<>> \/ IsSpace(cur[1]) = IsSpace(Head(line))
         THEN ChunksFrom(Tail(line), Append(cur, Head(line)))
         ELSE <<cur>> \o ChunksFrom(Tail(line), <<Head(line)>>)

Chunks(line) == ChunksFrom(line, <<>>)

RECURSIVE SumLen(_)
SumLen(chunks) == IF chunks = <<>> THEN 0 ELSE Len(Head(chunks)) + SumLen(Tail(chunks))

RECURSIVE Join(_)
Join(chunks) == IF chunks = <<>> THEN <<>> ELSE Head(chunks) \o Join(Tail(chunks))

\* the inner while loop of _wrap_chunks: how many leading chunks fit
RECURSIVE FillCount(_, _, _)
FillCount(chunks, cur_len, w) ==
    IF chunks = <<>> \/ cur_len + Len(Head(chunks)) > w THEN 0
    ELSE 1 + FillCount(Tail(chunks), cur_len + Len(Head(chunks)), w)

\* TextWrapper._wrap_chunks; hasLines says whether a line was already emitted
RECURSIVE WrapChunks(_, _, _)
WrapChunks(chunks0, w, hasLines) ==
    IF chunks0 = <<>> THEN <<>>
    ELSE LET chunks == IF BlankChunk(Head(chunks0)) /\ hasLines
                       THEN Tail(chunks0) ELSE chunks0
             k == FillCount(chunks, 0, w)
             filled == SubSeq(chunks, 1, k)
             rest == SubSeq(chunks, k + 1, Len(chunks))
             cur_len == SumLen(filled)
             long == rest # <<>> /\ Len(Head(rest)) > w
             \* _handle_long_word with break_long_words
             space_left == IF w < 1 THEN 1 ELSE w - cur_len
             cur_line == IF long
                         THEN Append(filled, PySlice(Head(rest), 0, space_left))
                         ELSE filled
             rest2 == IF long
                      THEN <<PySlice(Head(rest), space_left, Len(Head(rest)))>>
                           \o Tail(rest)
                      ELSE rest
             kept == IF cur_line # <<>> /\ BlankChunk(cur_line[Len(cur_line)])
                     THEN SubSeq(cur_line, 1, Len(cur_line) - 1)
                     ELSE cur_line
         IN IF kept # <<>>
            THEN <<Join(kept)>> \o WrapChunks(rest2, w, TRUE)
            ELSE WrapChunks(rest2, w, hasLines)

\* term.wrap(line, width) for a line without newlines and width >= 1
term_wrap(line, w) == IF NonBlank(line) THEN WrapChunks(Chunks(line), w, FALSE) ELSE << <<>> >>

-----------------------------------------------------------------------------
(* Input events and key sets. *)

\* the terminal's named keys (term.KEY_*), as codes
KEY_HOME == "KEY_HOME"
KEY_END == "KEY_END"
KEY_PGUP == "KEY_PGUP"
KEY_PGDOWN == "KEY_PGDOWN"
KEY_UP == "KEY_UP"
KEY_DOWN == "KEY_DOWN"
KEY_ENTER == "KEY_ENTER"
KEY_ESCAPE == "KEY_ESCAPE"
KEY_LEFT == "KEY_LEFT"
KEY_RIGHT == "KEY_RIGHT"
KEY_REFRESH == "KEY_REFRESH"

\* Keystroke.code of an event that is a plain character
NoCode == "None"

\* unichr(12), unichr(27) and u'\r'
CtrlL == "^L"
Esc == "^["
CR == "\r"

\* an input event: a plain character, or a named key carrying a .code
PlainKey(ucs) == [ucs |-> ucs, code |-> NoCode]
NamedKey(code) == [ucs |-> "", code |-> code]

\* keystroke = hasattr(keystroke, 'code') and keystroke.code or keystroke
ResolveCode(keystroke) ==
    IF keystroke.code # NoCode THEN keystroke.code ELSE keystroke.ucs

\* keyset[action].append(code)
Bind(ks, action, code) == [ks EXCEPT ![action] = Append(@, code)]

\* pager.VI_KEYSET
PAGER_VI_KEYSET ==
    [refresh |-> <<CtrlL>>,
     home    |-> <<"0">>,
     end     |-> <<"G">>,
     up      |-> <<"k", "K">>,
     down    |-> <<"j", "J", CR>>,
     pgup    |-> <<"b", "B", "">>,
     pgdown  |-> <<"f", "F", "">>,
     exit    |-> <<"q", "Q", Esc>>]

\* Pager.init_keystrokes: the key set the instance ends with
pager_init_keystrokes(ks) ==
    Bind(Bind(Bind(Bind(Bind(Bind(Bind(Bind(ks,
        "home", KEY_HOME), "end", KEY_END), "pgup", KEY_PGUP),
        "pgdown", KEY_PGDOWN), "up", KEY_UP), "down", KEY_DOWN),
        "down", KEY_ENTER), "exit", KEY_ESCAPE)

\* selector.VI_KEYSET
SELECTOR_VI_KEYSET ==
    [refresh |-> <<CtrlL>>,
     toggle  |-> <<" ">>,
     left    |-> <<"h">>,
     right   |-> <<"l">>,
     enter   |-> <<CR>>,
     exit    |-> <<"q", "Q", Esc>>]

\* Selector.init_keystrokes: the key set the instance ends with
selector_init_keystrokes(ks) ==
    Bind(Bind(Bind(Bind(Bind(ks,
        "refresh", KEY_REFRESH), "left", KEY_LEFT), "right", KEY_RIGHT),
        "enter", KEY_ENTER), "exit", KEY_ESCAPE)

-----------------------------------------------------------------------------
(* The Pager.  self is the record of the instance's attributes. *)

\* one piece of a render string
Normal == [kind |-> "normal", row |-> 0, ucs |-> <<>>]
RowToken(row, ucs) == [kind |-> "row", row |-> row, ucs |-> ucs]

\* the empty string u''
Empty == <<>>

\* mutant: the result is not floored at 0
bottom_unfloored(self) ==
    LET maximum == IF self.has_content /\ Len(self.content) # 0
                   THEN Len(self.content)
                   ELSE self.visible_height
    IN maximum - self.visible_height

\* Pager.bottom
bottom(self) ==
    LET maximum == IF self.has_content /\ Len(self.content) # 0
                   THEN Len(self.content)
                   ELSE self.visible_height
    IN Max(0, maximum - self.visible_height)

\* mutant: the new position is not bounded by bottom
position_set_unbounded(self, pos) ==
    LET last == IF self.has_position THEN self.position ELSE pos
        new == Max(0, pos)
    IN [self EXCEPT !.position_last = last,
                    !.position = new,
                    !.has_position = TRUE,
                    !.moved = (last # new)]

\* mutant: the new position is not floored at 0
position_set_unfloored(self, pos) ==
    LET last == IF self.has_position THEN self.position ELSE pos
        new == Min(pos, bottom(self))
    IN [self EXCEPT !.position_last = last,
                    !.position = new,
                    !.has_position = TRUE,
                    !.moved = (last # new)]

\* mutant: moved compares the previous position with the requested one
position_set_moved_by_request(self, pos) ==
    LET last == IF self.has_position THEN self.position ELSE pos
        new == Min(Max(0, pos), bottom(self))
    IN [self EXCEPT !.position_last = last,
                    !.position = new,
                    !.has_position = TRUE,
                    !.moved = (last # pos)]

\* Pager.position setter
position_set(self, pos) ==
    LET last == IF self.has_position THEN self.position ELSE pos
        new == Min(Max(0, pos), bottom(self))
    IN [self EXCEPT !.position_last = last,
                    !.position = new,
                    !.has_position = TRUE,
                    !.moved = (last # new)]

\* mutant: the slice starts one line below position
visible_content_from_next(self) ==
    PySlice(self.content, self.position + 1, self.position + 1 + self.visible_height)

\* Pager.visible_content
visible_content(self) ==
    PySlice(self.content, self.position, self.position + self.visible_height)

\* Pager.refresh_row
refresh_row(self, row) ==
    RowToken(row, IF row < Len(visible_content(self))
                  THEN visible_content(self)[row + 1]
                  ELSE <<>>)

\* Pager.refresh
refresh(self, start_row) ==
    LET rows == PyRange(start_row, Len(visible_content(self)))
    IN <<Normal>> \o [k \in 1..Len(rows) |-> refresh_row(self, rows[k])] \o <<Normal>>

\* what a method leaves and returns
Ret(self, str) == [self |-> self, rstr |-> str]

\* "return self.refresh() if self.moved else u''"
RefreshIfMoved(self) == Ret(self, IF self.moved THEN refresh(self, 0) ELSE Empty)

\* Pager.move_home
move_home(self) == RefreshIfMoved(position_set(self, 0))

\* mutant: one line short of the end
move_end_off_by_one(self) ==
    RefreshIfMoved(position_set(self, Len(self.content) - self.visible_height - 1))

\* Pager.move_end
move_end(self) ==
    RefreshIfMoved(position_set(self, Len(self.content) - self.visible_height))

\* mutant: the step is num lines, not num pages
move_pgup_by_lines(self, num) ==
    RefreshIfMoved(position_set(self, self.position - num))

\* Pager.move_pgup
move_pgup(self, num) ==
    RefreshIfMoved(position_set(self, self.position - num * self.visible_height))

\* mutant: the refresh is returned whether or not the view moved
move_pgdown_always_refresh(self, num) ==
    LET s1 == position_set(self, self.position + num * self.visible_height)
    IN Ret(s1, refresh(s1, 0))

\* Pager.move_pgdown
move_pgdown(self, num) ==
    RefreshIfMoved(position_set(self, self.position + num * self.visible_height))

\* Pager.move_down
move_down(self, num) == RefreshIfMoved(position_set(self, self.position + num))

\* mutant: the refresh is returned whether or not the view moved
move_up_always_refresh(self, num) ==
    LET s1 == position_set(self, self.position - num)
    IN Ret(s1, refresh(s1, 0))

\* Pager.move_up
move_up(self, num) == RefreshIfMoved(position_set(self, self.position - num))

\* decode_pipe on text that holds no pipe code
decode_pipe(ucs) == ucs

\* mutant: a blank line is not appended
RECURSIVE WrapLines_dropping_blank(_, _)
WrapLines_dropping_blank(lines, w) ==
    IF lines = <<>> THEN <<>>
    ELSE (IF NonBlank(Head(lines)) THEN term_wrap(Head(lines), w) ELSE <<>>)
         \o WrapLines_dropping_blank(Tail(lines), w)

\* Pager._content_wrap
RECURSIVE WrapLines(_, _)
WrapLines(lines, w) ==
    IF lines = <<>> THEN <<>>
    ELSE (IF NonBlank(Head(lines)) THEN term_wrap(Head(lines), w) ELSE << <<>> >>)
         \o WrapLines(Tail(lines), w)

\* mutant: lines are wrapped at the full visible width
content_wrap_full_width(self, ucs) == WrapLines(SplitLines(ucs), self.visible_width)

content_wrap(self, ucs) == WrapLines(SplitLines(ucs), self.visible_width - 1)

\* mutant: the setter also rewinds the view to the top
content_set_rewinding(self, ucs_value) ==
    [self EXCEPT !.content = content_wrap(self, decode_pipe(ucs_value)),
                 !.has_content = TRUE,
                 !.position_last = self.position,
                 !.position = 0,
                 !.moved = (self.position # 0)]

\* mutant: the setter also clamps position to the new bottom
content_set_clamping(self, ucs_value) ==
    LET s1 == [self EXCEPT !.content = content_wrap(self, decode_pipe(ucs_value)),
                           !.has_content = TRUE]
    IN [s1 EXCEPT !.position = Min(self.position, bottom(s1))]

\* Pager.content setter
content_set(self, ucs_value) ==
    [self EXCEPT !.content = content_wrap(self, decode_pipe(ucs_value)),
                 !.has_content = TRUE]

\* Pager.update
update(self, ucs) ==
    LET s1 == content_set(self, ucs) IN Ret(s1, refresh(s1, 0))

\* mutant: the whole buffer is wrapped again together with the new text
append_rewrapping(self, ucs) ==
    LET s1 == [self EXCEPT !.content =
                   WrapLines(self.content \o SplitLines(decode_pipe(ucs)),
                             self.visible_width - 1)]
        r == move_end(s1)
    IN IF r.rstr # Empty THEN r ELSE Ret(r.self, refresh(r.self, bottom(r.self)))

\* mutant: the view is not moved to the end
append_without_move_end(self, ucs) ==
    LET s1 == [self EXCEPT !.content = self.content \o content_wrap(self, decode_pipe(ucs))]
    IN Ret(s1, refresh(s1, bottom(s1)))

\* Pager.append
append(self, ucs) ==
    LET s1 == [self EXCEPT !.content = self.content \o content_wrap(self, decode_pipe(ucs))]
        r == move_end(s1)
    IN IF r.rstr # Empty THEN r ELSE Ret(r.self, refresh(r.self, bottom(r.self)))

\* mutant: exit is tested before the navigation actions
pager_process_keystroke_exit_first(self, keystroke) ==
    LET s0 == [self EXCEPT !.moved = FALSE]
        code == ResolveCode(keystroke)
    IN IF InList(code, s0.keyset.refresh) THEN Ret(s0, refresh(s0, 0))
       ELSE IF InList(code, s0.keyset.exit) THEN Ret([s0 EXCEPT !.quit = TRUE], Empty)
       ELSE IF InList(code, s0.keyset.up) THEN move_up(s0, 1)
       ELSE IF InList(code, s0.keyset.down) THEN move_down(s0, 1)
       ELSE IF InList(code, s0.keyset.home) THEN move_home(s0)
       ELSE IF InList(code, s0.keyset.end) THEN move_end(s0)
       ELSE IF InList(code, s0.keyset.pgup) THEN move_pgup(s0, 1)
       ELSE IF InList(code, s0.keyset.pgdown) THEN move_pgdown(s0, 1)
       ELSE Ret(s0, Empty)

\* mutant: quit is cleared together with moved
pager_process_keystroke_resets_quit(self, keystroke) ==
    LET s0 == [self EXCEPT !.moved = FALSE, !.quit = FALSE]
        code == ResolveCode(keystroke)
    IN IF InList(code, s0.keyset.refresh) THEN Ret(s0, refresh(s0, 0))
       ELSE IF InList(code, s0.keyset.up) THEN move_up(s0, 1)
       ELSE IF InList(code, s0.keyset.down) THEN move_down(s0, 1)
       ELSE IF InList(code, s0.keyset.home) THEN move_home(s0)
       ELSE IF InList(code, s0.keyset.end) THEN move_end(s0)
       ELSE IF InList(code, s0.keyset.pgup) THEN move_pgup(s0, 1)
       ELSE IF InList(code, s0.keyset.pgdown) THEN move_pgdown(s0, 1)
       ELSE IF InList(code, s0.keyset.exit) THEN Ret([s0 EXCEPT !.quit = TRUE], Empty)
       ELSE Ret(s0, Empty)

\* Pager.process_keystroke
pager_process_keystroke(self, keystroke) ==
    LET s0 == [self EXCEPT !.moved = FALSE]
        code == ResolveCode(keystroke)
    IN IF InList(code, s0.keyset.refresh) THEN Ret(s0, refresh(s0, 0))
       ELSE IF InList(code, s0.keyset.up) THEN move_up(s0, 1)
       ELSE IF InList(code, s0.keyset.down) THEN move_down(s0, 1)
       ELSE IF InList(code, s0.keyset.home) THEN move_home(s0)
       ELSE IF InList(code, s0.keyset.end) THEN move_end(s0)
       ELSE IF InList(code, s0.keyset.pgup) THEN move_pgup(s0, 1)
       ELSE IF InList(code, s0.keyset.pgdown) THEN move_pgdown(s0, 1)
       ELSE IF InList(code, s0.keyset.exit) THEN Ret([s0 EXCEPT !.quit = TRUE], Empty)
       ELSE Ret(s0, Empty)

\* Pager.__init__ up to AnsiWindow.__init__: neither _position nor _content
\* is an attribute yet
pager_blank(ks, height, wid) ==
    [quit |-> FALSE, keyset |-> pager_init_keystrokes(ks),
     visible_height |-> height, visible_width |-> wid,
     has_position |-> FALSE, position |-> 0, position_last |-> 0,
     moved |-> FALSE, has_content |-> FALSE, content |-> <<>>]

\* mutant: content is assigned first, position second
pager_new_content_first(ks, height, wid, pos, ucs) ==
    position_set(content_set(pager_blank(ks, height, wid), ucs), pos)

\* Pager.__init__: position is assigned first, content second
pager_new(ks, height, wid, pos, ucs) ==
    content_set(position_set(pager_blank(ks, height, wid), pos), ucs)

-----------------------------------------------------------------------------
(* The Selector.  self is the record of the instance's attributes. *)

\* the pieces of the selector's render string
PosToken == [kind |-> "pos", attr |-> "", text |-> "", slot |-> 0]
NormalToken == [kind |-> "normal", attr |-> "", text |-> "", slot |-> 0]
AttrToken(attr) == [kind |-> "attr", attr |-> attr, text |-> "", slot |-> 0]
CenterToken(text, slot) == [kind |-> "center", attr |-> "", text |-> text, slot |-> slot]

\* Selector.selection setter, when its assertion holds
selection_set(self, value) ==
    IF self.selection # value
    THEN [self EXCEPT !.moved = TRUE, !.selection = value]
    ELSE self

\* what an attribute assignment leaves: the instance, and the exception raised
Outcome(self, exc) == [self |-> self, raised |-> exc]

\* mutant: the value is stored first and the assertion evaluated last
selection_setter_assert_last(self, value) ==
    Outcome(selection_set(self, value),
            IF value \in {self.left, self.right} THEN "None" ELSE "AssertionError")

\* Selector.selection setter: the assertion, then the assignment
selection_setter(self, value) ==
    IF value \in {self.left, self.right}
    THEN Outcome(selection_set(self, value), "None")
    ELSE Outcome(self, "AssertionError")

\* Selector.left setter
left_setter(self, value) == [self EXCEPT !.left = value]

\* Selector.right setter
right_setter(self, value) == [self EXCEPT !.right = value]

\* Selector.refresh
selector_refresh(self) ==
    LET attr_l == IF self.selection = self.left THEN "selected" ELSE "unselected"
        attr_r == IF self.selection = self.right THEN "selected" ELSE "unselected"
    IN <<PosToken, NormalToken, AttrToken(attr_l),
         CenterToken(self.left, (self.width + 1) \div 2),
         NormalToken, AttrToken(attr_r),
         CenterToken(self.right, self.width \div 2),
         NormalToken>>

\* mutant: the render is returned whether or not the selection changed
move_right_always_refresh(self) ==
    LET s1 == selection_set(self, self.right) IN Ret(s1, selector_refresh(s1))

\* Selector.move_right
move_right(self) ==
    IF self.selection # self.right
    THEN LET s1 == selection_set(self, self.right) IN Ret(s1, selector_refresh(s1))
    ELSE Ret(self, Empty)

\* Selector.move_left
move_left(self) ==
    IF self.selection # self.left
    THEN LET s1 == selection_set(self, self.left) IN Ret(s1, selector_refresh(s1))
    ELSE Ret(self, Empty)

\* Selector.toggle
toggle(self) ==
    LET s1 == IF self.selection = self.left
              THEN selection_set(self, self.right)
              ELSE selection_set(self, self.left)
    IN Ret(s1, selector_refresh(s1))

\* mutant: a code bound to no action is taken for enter
selector_process_keystroke_unmatched_enters(self, keystroke) ==
    LET s0 == [self EXCEPT !.moved = FALSE]
        code == ResolveCode(keystroke)
    IN IF InList(code, s0.keyset.refresh) THEN Ret(s0, selector_refresh(s0))
       ELSE IF InList(code, s0.keyset.left) THEN move_left(s0)
       ELSE IF InList(code, s0.keyset.right) THEN move_right(s0)
       ELSE IF InList(code, s0.keyset.toggle) THEN toggle(s0)
       ELSE IF InList(code, s0.keyset.exit) THEN Ret([s0 EXCEPT !.quit = TRUE], Empty)
       ELSE Ret([s0 EXCEPT !.selected = TRUE], Empty)

\* Selector.process_keystroke
selector_process_keystroke(self, keystroke) ==
    LET s0 == [self EXCEPT !.moved = FALSE]
        code == ResolveCode(keystroke)
    IN IF InList(code, s0.keyset.refresh) THEN Ret(s0, selector_refresh(s0))
       ELSE IF InList(code, s0.keyset.left) THEN move_left(s0)
       ELSE IF InList(code, s0.keyset.right) THEN move_right(s0)
       ELSE IF InList(code, s0.keyset.toggle) THEN toggle(s0)
       ELSE IF InList(code, s0.keyset.exit) THEN Ret([s0 EXCEPT !.quit = TRUE], Empty)
       ELSE IF InList(code, s0.keyset.enter) THEN Ret([s0 EXCEPT !.selected = TRUE], Empty)
       ELSE Ret(s0, Empty)

\* Selector.__init__
selector_new(ks, wid, l, r) ==
    [left |-> l, selection |-> l, right |-> r, moved |-> FALSE, quit |-> FALSE,
     selected |-> FALSE, keyset |-> selector_init_keystrokes(ks), width |-> wid]

-----------------------------------------------------------------------------
(* Inputs the operations are called with. *)

\* texts given to the content setter, update and append
Texts ==
    { <<>>,
      <<"a", "\n">>,
      <<"\n", "a", "b">> }

\* 'position' arguments given to the Pager constructor
InitPositions == {0, 1}

\* a key set given to the Pager constructor in place of the default table:
\* "j" is bound to down and exit, "G" to refresh and end
PagerCustomKeyset == Bind(Bind(PAGER_VI_KEYSET, "exit", "j"), "refresh", "G")

\* constructor arguments <<keyset, visible height, visible width>>: the default
\* table in every window, the custom table in the smallest scrolling window
PagerArgs ==
    ({PAGER_VI_KEYSET} \X Heights \X Widths) \cup {<<PagerCustomKeyset, 1, 2>>}

\* events the pager is fed
PagerEvents ==
    { PlainKey(CtrlL), PlainKey("k"), PlainKey("j"), PlainKey("0"), PlainKey("G"),
      PlainKey(""), PlainKey("q"), PlainKey("x"),
      NamedKey(KEY_PGDOWN) }

\* endpoint values and widths given to the Selector constructor
Endpoints == {"Yes", "No"}

SelectorWidths == (MaxWidth - 1)..MaxWidth

\* values assigned to the selection, left and right properties
AssignedValues == Endpoints \cup {"Maybe"}

\* a key set given to the Selector constructor in place of the default table:
\* "h" is bound to left and exit
SelectorCustomKeyset == Bind(SELECTOR_VI_KEYSET, "exit", "h")

\* key sets given to the Selector constructor
SelectorKeysets ==
    { SELECTOR_VI_KEYSET,
      SelectorCustomKeyset,
      Bind(SELECTOR_VI_KEYSET, "enter", "q"),
      Bind(SELECTOR_VI_KEYSET, "toggle", "l") }

\* constructor arguments <<keyset, width>>: the default table at every width,
\* the other tables at the widest
SelectorArgs ==
    ({SELECTOR_VI_KEYSET} \X SelectorWidths)
        \cup ((SelectorKeysets \ {SELECTOR_VI_KEYSET}) \X {MaxWidth})

\* events the selector is fed
SelectorEvents ==
    { PlainKey(CtrlL), PlainKey("h"), PlainKey("l"), PlainKey(" "), PlainKey(CR),
      PlainKey("q"), PlainKey("x"), NamedKey(KEY_ENTER), NamedKey(KEY_UP) }

\* no event
NoKey == [ucs |-> "", code |-> NoCode]

\* the record kept of the last call
Call(name, num, key) == [name |-> name, num |-> num, key |-> key, value |-> ""]

\* the record kept of an attribute assignment
Assignment(name, value) == [name |-> name, num |-> 0, key |-> NoKey, value |-> value]

\* no exception
NoError == "None"

\* the events the IRC door routes to its own session, and keyboard input
RoutedEvents == {"irc", "irc-quit", "irc-connected", "irc-welcome"}

\* establish_connection() not yet run: IRCChat.connected is False, nothing
\* is buffered, nothing has been read and nothing returned
IrcIdle ==
    [pc         |-> "connect",
     phase      |-> 1,
     connected  |-> FALSE,
     events     |-> [e \in RoutedEvents |-> 0],
     input      |-> <<>>,
     dispatched |-> 0,
     handler    |-> "None",
     typed      |-> 0,
     history    |-> <<>>,
     inp        |-> NoKey,
     error      |-> FALSE,
     result     |-> "None"]

\* read() results
NotReturned == [returned |-> FALSE, is_none |-> FALSE, value |-> ""]
ReturnedNone == [returned |-> TRUE, is_none |-> TRUE, value |-> ""]
Returned(v) == [returned |-> TRUE, is_none |-> FALSE, value |-> v]

-----------------------------------------------------------------------------
(* Key sets as Python objects.  A key set is a dict from action name to a  *)
(* list object; lists maps the address of each list object to its value,   *)
(* so that two dicts holding the same address share the list.              *)

Classes == {"Pager", "Selector"}

\* the module-level table of a class, as first imported
VI_KEYSET(class) == IF class = "Pager" THEN PAGER_VI_KEYSET ELSE SELECTOR_VI_KEYSET

\* the address of a list: owner 0 is the module-level VI_KEYSET of the class,
\* owner n > 0 the table the caller built for the n-th instance
Address(class, owner, action) == <<class, owner, action>>

\* the dict whose lists are owned by owner
DictOf(class, owner) ==
    [action \in DOMAIN VI_KEYSET(class) |-> Address(class, owner, action)]

\* the list objects of a table holding the values of ks
ListsOf(class, owner, ks) ==
    [addr \in {Address(class, owner, action) : action \in DOMAIN ks}
        |-> ks[addr[3]]]

\* the heap after the two modules are imported
ModuleLists == ListsOf("Pager", 0, PAGER_VI_KEYSET) @@ ListsOf("Selector", 0, SELECTOR_VI_KEYSET)

\* VI_KEYSET.copy(): a new dict holding the same list objects
dict_copy(dict) == dict

\* the key set a dict denotes in heap
Deref(heap, dict) == [action \in DOMAIN dict |-> heap[dict[action]]]

\* init_keystrokes of the class, appending in place to the lists of dict
init_keystrokes(heap, class, dict) ==
    LET now == Deref(heap, dict)
        new == IF class = "Pager" THEN pager_init_keystrokes(now)
               ELSE selector_init_keystrokes(now)
    IN [addr \in DOMAIN heap |->
           IF \E action \in DOMAIN dict : dict[action] = addr
           THEN new[addr[3]]
           ELSE heap[addr]]

\* the named keys init_keystrokes binds, as <<action, code>>
NamedBindings(class) ==
    IF class = "Pager"
    THEN {<<"home", KEY_HOME>>, <<"end", KEY_END>>, <<"pgup", KEY_PGUP>>,
          <<"pgdown", KEY_PGDOWN>>, <<"up", KEY_UP>>, <<"down", KEY_DOWN>>,
          <<"down", KEY_ENTER>>, <<"exit", KEY_ESCAPE>>}
    ELSE {<<"refresh", KEY_REFRESH>>, <<"left", KEY_LEFT>>, <<"right", KEY_RIGHT>>,
          <<"enter", KEY_ENTER>>, <<"exit", KEY_ESCAPE>>}

\* the table a caller passes as keyset=, built for that call
CustomKeyset(class) ==
    IF class = "Pager" THEN PagerCustomKeyset ELSE SelectorCustomKeyset

\* the action and the code of a later keyset[action].append(code)
AppendedAction == "exit"
AppendedCode == "x"

-----------------------------------------------------------------------------
(* The state machine. *)

\* the pager instance, as the record the methods work on
PagerSelf ==
    [quit |-> quit, keyset |-> keyset,
     visible_height |-> visible_height, visible_width |-> visible_width,
     has_position |-> TRUE, position |-> position, position_last |-> position_last,
     moved |-> moved, has_content |-> TRUE, content |-> content]

\* the selector instance, as the record the methods work on
SelectorSelf ==
    [left |-> left, right |-> right, selection |-> selection, moved |-> moved,
     quit |-> quit, selected |-> selected, keyset |-> keyset, width |-> width]

\* store a pager record into the state
PagerStore(self) ==
    /\ quit' = self.quit
    /\ keyset' = self.keyset
    /\ moved' = self.moved
    /\ content' = self.content
    /\ position' = self.position
    /\ position_last' = self.position_last
    /\ visible_height' = self.visible_height
    /\ visible_width' = self.visible_width
    /\ UNCHANGED <<widget, selectorVars, keysetVars, raw_text, irc>>

\* store a selector record into the state
SelectorStore(self) ==
    /\ quit' = self.quit
    /\ keyset' = self.keyset
    /\ moved' = self.moved
    /\ left' = self.left
    /\ right' = self.right
    /\ selection' = self.selection
    /\ selected' = self.selected
    /\ width' = self.width
    /\ UNCHANGED <<widget, pagerVars, keysetVars, raw_text, irc>>

PagerInit ==
    \E args \in PagerArgs, pos \in InitPositions, ucs \in Texts :
        LET self == pager_new(args[1], args[2], args[3], pos, ucs)
        IN /\ widget = "Pager"
           /\ quit = self.quit
           /\ keyset = self.keyset
           /\ moved = self.moved
           /\ content = self.content
           /\ position = self.position
           /\ position_last = self.position_last
           /\ visible_height = self.visible_height
           /\ visible_width = self.visible_width
           /\ left = "" /\ right = "" /\ selection = ""
           /\ selected = FALSE /\ width = 0

SelectorInit ==
    \E args \in SelectorArgs, l \in Endpoints, r \in Endpoints :
        LET self == selector_new(args[1], args[2], l, r)
        IN /\ widget = "Selector"
           /\ quit = self.quit
           /\ keyset = self.keyset
           /\ moved = self.moved
           /\ left = self.left
           /\ right = self.right
           /\ selection = self.selection
           /\ selected = self.selected
           /\ width = self.width
           /\ content = <<>> /\ position = 0 /\ position_last = 0
           /\ visible_height = 0 /\ visible_width = 0

Init ==
    /\ PagerInit \/ SelectorInit
    /\ lists = ModuleLists
    /\ instances = <<>>
    /\ raw_text = <<>>
    /\ irc = IrcIdle
    /\ reading = FALSE
    /\ retval = NotReturned
    /\ op = Call("__init__", 0, NoKey)
    /\ rstr = Empty
    /\ raised = NoError

\* a pager method called by the owner of the instance, outside read()
PagerCall(result, name, num) ==
    /\ widget = "Pager"
    /\ ~reading
    /\ \E r \in {result} :
           /\ PagerStore(r.self)
           /\ rstr' = r.rstr
    /\ op' = Call(name, num, NoKey)
    /\ raised' = NoError
    /\ UNCHANGED <<reading, retval>>

MoveUp == \E n \in Steps : PagerCall(move_up(PagerSelf, n), "move_up", n)

MoveDown == \E n \in Steps : PagerCall(move_down(PagerSelf, n), "move_down", n)

MovePgup == \E n \in Steps : PagerCall(move_pgup(PagerSelf, n), "move_pgup", n)

MovePgdown == \E n \in Steps : PagerCall(move_pgdown(PagerSelf, n), "move_pgdown", n)

MoveHome == PagerCall(move_home(PagerSelf), "move_home", 0)

MoveEnd == PagerCall(move_end(PagerSelf), "move_end", 0)

\* refresh() called directly
Refresh == PagerCall(Ret(PagerSelf, refresh(PagerSelf, 0)), "refresh", 0)

\* pager.content = ucs
SetContent ==
    \E ucs \in Texts :
        /\ Len(content_wrap(PagerSelf, ucs)) <= MaxLines
        /\ PagerCall(Ret(content_set(PagerSelf, ucs), Empty), "content", 0)

Update ==
    \E ucs \in Texts :
        /\ Len(content_wrap(PagerSelf, ucs)) <= MaxLines
        /\ PagerCall(update(PagerSelf, ucs), "update", 0)

PagerAppend ==
    \E ucs \in Texts :
        /\ Len(content) + Len(content_wrap(PagerSelf, ucs)) <= MaxLines
        /\ PagerCall(append(PagerSelf, ucs), "append", 0)

\* pager.width = ...: the window is given another visible width
SetWidth ==
    /\ widget = "Pager"
    /\ ~reading
    /\ \E w \in Widths \ {visible_width} :
           PagerStore([PagerSelf EXCEPT !.visible_width = w])
    /\ op' = Call("width", 0, NoKey)
    /\ rstr' = Empty
    /\ raised' = NoError
    /\ UNCHANGED <<reading, retval>>

\* Pager.read up to its first getch(): clear quit, echo a full refresh
PagerReadBegin ==
    /\ widget = "Pager"
    /\ ~reading
    /\ PagerStore([PagerSelf EXCEPT !.quit = FALSE])
    /\ rstr' = refresh(PagerSelf, 0)
    /\ op' = Call("read", 0, NoKey)
    /\ raised' = NoError
    /\ reading' = TRUE
    /\ retval' = NotReturned

\* process_keystroke(event): called by the owner, or by read() with the event
\* getch() delivered; read() returns once quit is set
PagerKeystroke ==
    /\ widget = "Pager"
    /\ \E ev \in PagerEvents :
        \E r \in {pager_process_keystroke(PagerSelf, ev)} :
           /\ PagerStore(r.self)
           /\ rstr' = r.rstr
           /\ op' = Call("process_keystroke", 0, ev)
           /\ raised' = NoError
           /\ reading' = (reading /\ ~r.self.quit)
           /\ retval' = IF reading /\ r.self.quit THEN ReturnedNone ELSE retval

\* a selector method called by the owner of the instance, outside read()
SelectorCall(result, name) ==
    /\ widget = "Selector"
    /\ ~reading
    /\ \E r \in {result} :
           /\ SelectorStore(r.self)
           /\ rstr' = r.rstr
    /\ op' = Call(name, 0, NoKey)
    /\ raised' = NoError
    /\ UNCHANGED <<reading, retval>>

Toggle == SelectorCall(toggle(SelectorSelf), "toggle")

MoveLeft == SelectorCall(move_left(SelectorSelf), "move_left")

MoveRight == SelectorCall(move_right(SelectorSelf), "move_right")

SelectorRefresh == SelectorCall(Ret(SelectorSelf, selector_refresh(SelectorSelf)), "refresh")

\* selector.selection = value
SetSelection ==
    /\ widget = "Selector"
    /\ ~reading
    /\ \E value \in AssignedValues :
        \E r \in {selection_setter(SelectorSelf, value)} :
           /\ SelectorStore(r.self)
           /\ raised' = r.raised
           /\ op' = Assignment("selection", value)
    /\ rstr' = Empty
    /\ UNCHANGED <<reading, retval>>

\* selector.left = value
SetLeft ==
    /\ widget = "Selector"
    /\ ~reading
    /\ \E value \in AssignedValues :
           /\ SelectorStore(left_setter(SelectorSelf, value))
           /\ op' = Call("left", 0, NoKey)
    /\ rstr' = Empty
    /\ raised' = NoError
    /\ UNCHANGED <<reading, retval>>

\* selector.right = value
SetRight ==
    /\ widget = "Selector"
    /\ ~reading
    /\ \E value \in AssignedValues :
           /\ SelectorStore(right_setter(SelectorSelf, value))
           /\ op' = Call("right", 0, NoKey)
    /\ rstr' = Empty
    /\ raised' = NoError
    /\ UNCHANGED <<reading, retval>>

\* Selector.read up to its first getch()
SelectorReadBegin ==
    /\ widget = "Selector"
    /\ ~reading
    /\ SelectorStore([SelectorSelf EXCEPT !.selected = FALSE, !.quit = FALSE])
    /\ rstr' = selector_refresh(SelectorSelf)
    /\ op' = Call("read", 0, NoKey)
    /\ raised' = NoError
    /\ reading' = TRUE
    /\ retval' = NotReturned

\* mutant: read() returns the selection however its loop ended
SelectorKeystroke_returns_selection_on_quit ==
    /\ widget = "Selector"
    /\ \E ev \in SelectorEvents :
        \E r \in {selector_process_keystroke(SelectorSelf, ev)} :
        LET done == r.self.selected \/ r.self.quit
        IN /\ SelectorStore(r.self)
           /\ rstr' = r.rstr
           /\ op' = Call("process_keystroke", 0, ev)
           /\ raised' = NoError
           /\ reading' = (reading /\ ~done)
           /\ retval' = IF reading /\ done
                        THEN Returned(r.self.selection)
                        ELSE retval

\* mutant: the loop of read() runs until selected alone
SelectorKeystroke_until_selected ==
    /\ widget = "Selector"
    /\ \E ev \in SelectorEvents :
        \E r \in {selector_process_keystroke(SelectorSelf, ev)} :
        LET done == r.self.selected
        IN /\ SelectorStore(r.self)
           /\ rstr' = r.rstr
           /\ op' = Call("process_keystroke", 0, ev)
           /\ raised' = NoError
           /\ reading' = (reading /\ ~done)
           /\ retval' = IF reading /\ done
                        THEN (IF r.self.quit THEN ReturnedNone
                              ELSE Returned(r.self.selection))
                        ELSE retval

\* process_keystroke(event): called by the owner, or by read() with the event
\* getch() delivered; read() returns once selected or quit is set
SelectorKeystroke ==
    /\ widget = "Selector"
    /\ \E ev \in SelectorEvents :
        \E r \in {selector_process_keystroke(SelectorSelf, ev)} :
        LET done == r.self.selected \/ r.self.quit
        IN /\ SelectorStore(r.self)
           /\ rstr' = r.rstr
           /\ op' = Call("process_keystroke", 0, ev)
           /\ raised' = NoError
           /\ reading' = (reading /\ ~done)
           /\ retval' = IF reading /\ done
                        THEN (IF r.self.quit THEN ReturnedNone
                              ELSE Returned(r.self.selection))
                        ELSE retval

Next ==
    \/ MoveUp
    \/ MoveDown
    \/ MovePgup
    \/ MovePgdown
    \/ MoveHome
    \/ MoveEnd
    \/ Refresh
    \/ SetContent
    \/ Update
    \/ PagerAppend
    \/ SetWidth
    \/ PagerReadBegin
    \/ PagerKeystroke
    \/ Toggle
    \/ MoveLeft
    \/ MoveRight
    \/ SelectorRefresh
    \/ SetSelection
    \/ SetLeft
    \/ SetRight
    \/ SelectorReadBegin
    \/ SelectorKeystroke

Spec == Init /\ [][Next]_vars

-----------------------------------------------------------------------------
(* The construction of several widgets in one process. *)

widgetVars == <<widget, keyset, quit, moved, pagerVars, selectorVars,
                reading, retval, rstr, raised, raw_text, irc>>

KeysetInit ==
    /\ lists = ModuleLists
    /\ instances = <<>>
    /\ raw_text = <<>>
    /\ irc = IrcIdle
    /\ op = Call("import", 0, NoKey)
    /\ widget = "None"
    /\ keyset = <<>>
    /\ quit = FALSE /\ moved = FALSE
    /\ content = <<>> /\ position = 0 /\ position_last = 0
    /\ visible_height = 0 /\ visible_width = 0
    /\ left = "" /\ right = "" /\ selection = ""
    /\ selected = FALSE /\ width = 0
    /\ reading = FALSE
    /\ retval = NotReturned
    /\ rstr = Empty
    /\ raised = NoError

\* Pager(...) / Selector(...) without keyset=: kwargs.pop('keyset',
\* VI_KEYSET.copy()), then init_keystrokes
ConstructDefault ==
    /\ Len(instances) < MaxInstances
    /\ \E class \in Classes :
        LET dict == dict_copy(DictOf(class, 0))
        IN /\ lists' = init_keystrokes(lists, class, dict)
           /\ instances' = Append(instances, [class |-> class, keyset |-> dict])
    /\ op' = Call("__init__", Len(instances) + 1, NoKey)
    /\ UNCHANGED widgetVars

\* Pager(..., keyset=ks) / Selector(..., keyset=ks) with a table ks of the
\* caller's own making
ConstructCustom ==
    /\ Len(instances) < MaxInstances
    /\ \E class \in Classes :
        LET n == Len(instances) + 1
            dict == DictOf(class, n)
        IN /\ lists' = init_keystrokes(lists @@ ListsOf(class, n, CustomKeyset(class)),
                                       class, dict)
           /\ instances' = Append(instances, [class |-> class, keyset |-> dict])
    /\ op' = Call("__init__", Len(instances) + 1, NoKey)
    /\ UNCHANGED widgetVars

\* instance.keyset[action].append(code), later on
AppendCode ==
    /\ \E i \in 1..Len(instances) :
        LET addr == instances[i].keyset[AppendedAction]
        IN /\ ~InList(AppendedCode, lists[addr])
           /\ lists' = [lists EXCEPT ![addr] = Append(@, AppendedCode)]
           /\ op' = Call("keyset.append", i, NoKey)
    /\ UNCHANGED instances
    /\ UNCHANGED widgetVars

KeysetNext ==
    \/ ConstructDefault
    \/ ConstructCustom
    \/ AppendCode

KeysetSpec == KeysetInit /\ [][KeysetNext]_vars

-----------------------------------------------------------------------------
(* The line wrapper on its own: _content_wrap applied to one text by a     *)
(* pager of one width.                                                     *)

\* the characters of the texts: two letters, the space and the newline
Alphabet == {"a", "b", " ", "\n"}

WrapTexts == UNION {[1..n -> Alphabet] : n \in 0..MaxText}

WrapInit ==
    /\ raw_text \in WrapTexts
    /\ irc = IrcIdle
    /\ visible_width \in Widths
    /\ widget = "Pager"
    /\ keyset = pager_init_keystrokes(PAGER_VI_KEYSET)
    /\ op = Call("__init__", 0, NoKey)
    /\ content = <<>> /\ position = 0 /\ position_last = 0
    /\ visible_height = 0
    /\ quit = FALSE /\ moved = FALSE
    /\ left = "" /\ right = "" /\ selection = ""
    /\ selected = FALSE /\ width = 0
    /\ reading = FALSE
    /\ retval = NotReturned
    /\ rstr = Empty
    /\ raised = NoError
    /\ lists = ModuleLists
    /\ instances = <<>>

\* self._content = self._content_wrap(raw_text)
Wrap ==
    /\ op.name = "__init__"
    /\ content' = content_wrap(PagerSelf, raw_text)
    /\ op' = Call("_content_wrap", 0, NoKey)
    /\ UNCHANGED <<widget, keyset, quit, moved, position, position_last,
                   visible_height, visible_width, selectorVars, reading,
                   retval, rstr, raised, keysetVars, raw_text, irc>>

WrapNext == Wrap

WrapSpec == WrapInit /\ [][WrapNext]_vars

-----------------------------------------------------------------------------
(* Paging through a buffer of one-letter lines: a pager constructed with   *)
(* the first lines of a, b, c, d, e and scrolled or given other content.   *)

Letters == <<"a", "b", "c", "d", "e", "f">>

\* the text of the first n letters, one to a line
RECURSIVE LetterText(_)
LetterText(n) ==
    IF n = 0 THEN <<>>
    ELSE IF n = 1 THEN <<Letters[1]>>
    ELSE LetterText(n - 1) \o <<"\n", Letters[n]>>

PageTexts == {LetterText(n) : n \in 0..Min(MaxPageLines, Len(Letters))}

PageInit ==
    /\ \E h \in 0..MaxPageHeight, t \in PageTexts :
        LET self == pager_new(PAGER_VI_KEYSET, h, MaxWidth, 0, t)
        IN /\ quit = self.quit
           /\ keyset = self.keyset
           /\ moved = self.moved
           /\ content = self.content
           /\ position = self.position
           /\ position_last = self.position_last
           /\ visible_height = self.visible_height
           /\ visible_width = self.visible_width
    /\ widget = "Pager"
    /\ left = "" /\ right = "" /\ selection = ""
    /\ selected = FALSE /\ width = 0
    /\ lists = ModuleLists
    /\ instances = <<>>
    /\ raw_text = <<>>
    /\ irc = IrcIdle
    /\ reading = FALSE
    /\ retval = NotReturned
    /\ op = Call("__init__", 0, NoKey)
    /\ rstr = Empty
    /\ raised = NoError

\* pager.content = t, for another of the texts
PageSetContent ==
    \E t \in PageTexts :
        PagerCall(Ret(content_set(PagerSelf, t), Empty), "content", 0)

PageNext ==
    \/ MoveUp
    \/ MoveDown
    \/ MovePgup
    \/ MovePgdown
    \/ MoveHome
    \/ MoveEnd
    \/ PageSetContent

PageSpec == PageInit /\ [][PageNext]_vars

\* getch() delivers to a blocked read() an event that ends its loop
TerminalEvent == reading /\ (PagerKeystroke \/ SelectorKeystroke) /\ ~reading'

\* the widgets fed by an input source that eventually delivers such an event
FairSpec == Spec /\ WF_vars(TerminalEvent)

-----------------------------------------------------------------------------
(* The IRC door's handshake (x84/default/ircchat.py).  irc.events counts   *)
(* the events routed to the session and not yet read, irc.input is the     *)
(* keyboard buffer, irc.history the events read_events() has returned, in  *)
(* order, irc.inp the last value term.inkey(0) returned (NoKey for None),  *)
(* irc.handler the handler process_once() dispatched last,                 *)
(* irc.error whether connect() raised ServerConnectionError, irc.result    *)
(* what establish_connection() returned ("None" while it runs).            *)

\* session.send_event('route', (session.sid, name))
send_event(chat, name) == [chat EXCEPT !.events[name] = @ + 1]

\* IRCChat.queue: the message travels as an 'irc' event
queue(chat) == send_event(chat, "irc")

\* IRCChat.help
help(chat) == queue(chat)

\* IRCChat.on_disconnect
on_disconnect(chat) == send_event(chat, "irc-quit")

\* IRCChat.on_nicknameinuse: the line editor reads the keyboard up to the
\* return key; a blank nick gives up
on_nicknameinuse(chat, newnick) ==
    LET s1 == [send_event(chat, "irc-connected") EXCEPT !.connected = TRUE,
                                                        !.input = <<>>]
    IN IF newnick = "" THEN send_event(s1, "irc-quit") ELSE s1

\* IRCChat.on_erroneusnickname
on_erroneusnickname(chat, newnick) == on_nicknameinuse(chat, newnick)

\* IRCChat.on_welcome
on_welcome(chat) ==
    LET s1 == IF ~chat.connected THEN send_event(chat, "irc-connected") ELSE chat
        s2 == send_event(s1, "irc-welcome")
    IN queue(help(s2))

\* IRCChat.on_privnotice and the like: a line for the scrollback
on_privnotice(chat) == queue(chat)

\* the events among names that session.read_events(names) can return now
Buffered(chat, names) ==
    {e \in names : IF e = "input" THEN chat.input # <<>>
                                  ELSE chat.events[e] > 0}

\* session.read_events returning event: it leaves the buffer; typed input is
\* looked at by buffer_input(data, pushback=True) and stays at the front
read_event(chat, event) ==
    LET s1 == [chat EXCEPT !.history = Append(@, event)]
    IN IF event = "input" THEN s1 ELSE [s1 EXCEPT !.events[event] = @ - 1]

\* term.inkey(0): the next key of the keyboard buffer, None when it is empty
inkey(chat) ==
    IF chat.input = <<>> THEN [chat EXCEPT !.inp = NoKey]
    ELSE [chat EXCEPT !.inp = Head(chat.input), !.input = Tail(chat.input)]

\* unicode.lower() of a key
lower(ucs) == IF ucs = "Q" THEN "q" ELSE ucs

\* inp.lower() == u'q' or inp.code == term.KEY_ESCAPE
IsAbort(inp) == lower(inp.ucs) = "q" \/ inp.code = KEY_ESCAPE

\* return value of establish_connection
Return(chat, value) == [chat EXCEPT !.pc = "returned", !.result = value]

\* client.connect(...) in its try block
try_connect(chat, ok) ==
    IF ok THEN [chat EXCEPT !.pc = "read_events", !.phase = 1]
    ELSE Return([chat EXCEPT !.error = TRUE], "False")

\* one pass of the first loop, read_events having returned event
wait_connected(chat, event) ==
    LET s1 == read_event(chat, event)
    IN CASE event = "irc" -> s1
         [] event = "irc-connected" -> [s1 EXCEPT !.phase = 2]
         [] event = "input" -> [s1 EXCEPT !.pc = "inkey"]
         [] event = "irc-quit" -> Return(s1, "False")

\* mutant: the second loop reads over 'irc-quit'
wait_welcome_ignoring_quit(chat, event) ==
    LET s1 == read_event(chat, event)
    IN CASE event = "irc-quit" -> s1
         [] event = "input" -> [s1 EXCEPT !.pc = "inkey"]
         [] event = "irc-welcome" -> Return(s1, "client")

\* one pass of the second loop, read_events having returned event
wait_welcome(chat, event) ==
    LET s1 == read_event(chat, event)
    IN CASE event = "irc-quit" -> Return(s1, "False")
         [] event = "input" -> [s1 EXCEPT !.pc = "inkey"]
         [] event = "irc-welcome" -> Return(s1, "client")

\* one term.inkey(0) of the key loop of either phase, and its test
key_loop(chat) ==
    LET s1 == inkey(chat)
    IN IF s1.inp = NoKey THEN [s1 EXCEPT !.pc = "read_events"]
       ELSE IF IsAbort(s1.inp) THEN Return(s1, "False")
       ELSE s1

\* the keys a user types while the door connects
IrcKeys == {PlainKey("q"), PlainKey("Q"), PlainKey("x"), NamedKey(KEY_ESCAPE)}

\* the nicknames typed into the line editor: blank, or another nick
Nicks == {"", "nick"}

otherVars == <<widget, keyset, quit, moved, pagerVars, selectorVars, reading,
               retval, op, rstr, raised, keysetVars, raw_text>>

IrcInit ==
    /\ irc = IrcIdle
    /\ lists = ModuleLists
    /\ instances = <<>>
    /\ raw_text = <<>>
    /\ op = Call("establish_connection", 0, NoKey)
    /\ widget = "None"
    /\ keyset = <<>>
    /\ quit = FALSE /\ moved = FALSE
    /\ content = <<>> /\ position = 0 /\ position_last = 0
    /\ visible_height = 0 /\ visible_width = 0
    /\ left = "" /\ right = "" /\ selection = ""
    /\ selected = FALSE /\ width = 0
    /\ reading = FALSE
    /\ retval = NotReturned
    /\ rstr = Empty
    /\ raised = NoError

\* client.connect(SERVER, PORT, irc_handle): it returns, or raises
\* irc.client.ServerConnectionError
Connect ==
    /\ irc.pc = "connect"
    /\ \E ok \in BOOLEAN : irc' = try_connect(irc, ok)
    /\ UNCHANGED otherVars

\* client.reactor.process_once() at the head of either loop dispatches what
\* the server sent to the handlers of IRCChat
Dispatching ==
    /\ irc.pc = "read_events"
    /\ irc.dispatched < MaxDispatched

Dispatch(chat, name) ==
    /\ irc' = [chat EXCEPT !.dispatched = @ + 1, !.handler = name]
    /\ UNCHANGED otherVars

OnWelcome == Dispatching /\ Dispatch(on_welcome(irc), "on_welcome")

OnNicknameInUse ==
    /\ Dispatching
    /\ \E newnick \in Nicks :
           Dispatch(on_nicknameinuse(irc, newnick), "on_nicknameinuse")

OnErroneusNickname ==
    /\ Dispatching
    /\ \E newnick \in Nicks :
           Dispatch(on_erroneusnickname(irc, newnick), "on_erroneusnickname")

OnDisconnect == Dispatching /\ Dispatch(on_disconnect(irc), "on_disconnect")

OnPrivnotice == Dispatching /\ Dispatch(on_privnotice(irc), "on_privnotice")

\* the user types a key: it reaches the session's keyboard buffer
Type ==
    /\ irc.pc # "returned"
    /\ irc.typed < MaxTyped
    /\ \E inp \in IrcKeys :
           irc' = [irc EXCEPT !.input = Append(@, inp), !.typed = @ + 1]
    /\ UNCHANGED otherVars

\* first loop: read_events(('irc', 'irc-quit', 'irc-connected', 'input'))
\* returns an event (a timeout changes nothing)
WaitConnected ==
    /\ irc.pc = "read_events"
    /\ irc.phase = 1
    /\ \E event \in Buffered(irc, {"irc", "irc-quit", "irc-connected", "input"}) :
           irc' = wait_connected(irc, event)
    /\ UNCHANGED otherVars

\* second loop: read_events(('irc-welcome', 'irc-quit', 'input'))
WaitWelcome ==
    /\ irc.pc = "read_events"
    /\ irc.phase = 2
    /\ \E event \in Buffered(irc, {"irc-welcome", "irc-quit", "input"}) :
           irc' = wait_welcome(irc, event)
    /\ UNCHANGED otherVars

\* the key loop entered on an 'input' event
KeyLoop ==
    /\ irc.pc = "inkey"
    /\ irc' = key_loop(irc)
    /\ UNCHANGED otherVars

IrcNext ==
    \/ Connect
    \/ OnWelcome
    \/ OnNicknameInUse
    \/ OnErroneusNickname
    \/ OnDisconnect
    \/ OnPrivnotice
    \/ Type
    \/ WaitConnected
    \/ WaitWelcome
    \/ KeyLoop

IrcSpec == IrcInit /\ [][IrcNext]_vars

-----------------------------------------------------------------------------
(* Vocabulary of the properties. *)

IsPager == widget = "Pager"

IsSelector == widget = "Selector"

NavNames == {"move_up", "move_down", "move_pgup", "move_pgdown", "move_home", "move_end"}

\* bottom as the specification defines it: max(0, len(lines) - visible_height)
SpecBottom == Max(0, Len(content) - visible_height)

\* 0 <= position <= bottom
InRange == 0 <= position /\ position <= SpecBottom

\* the full-viewport refresh of the current state
FullRefresh == refresh(PagerSelf, 0)

-----------------------------------------------------------------------------
(* C1: from a position within [0, bottom], every navigation call (move_up, *)
(* move_down, move_pgup, move_pgdown with any step count, move_home,       *)
(* move_end) leaves position within [0, bottom]; so does any sequence of   *)
(* them.                                                                   *)
C1_NavigationStaysInRange ==
    [][(IsPager /\ InRange /\ op'.name \in NavNames) => InRange']_vars

\* a page-down that ran into the bottom and was clamped there
C1_Witness ==
    /\ IsPager
    /\ op.name = "move_pgdown"
    /\ moved
    /\ position = SpecBottom
    /\ position_last + op.num * visible_height > SpecBottom

(* C2, as stated: in every reachable Pager state 0 <= position <= bottom.  *)
(* The content setter and update() replace the buffer without touching     *)
(* position, so this fails after a replacement by a shorter buffer.        *)
C2_Original == IsPager => InRange

(* C2, amended: position is never negative; construction, append and every *)
(* navigation call leave 0 <= position <= bottom; every other call but a   *)
(* full content replacement keeps position within [0, bottom] if it was;   *)
(* a full content replacement (content setter, update) leaves position     *)
(* unchanged, so position may exceed the new bottom until the next         *)
(* navigation call or append.                                              *)
C2_InRangeExceptAfterReplacement ==
    [][IsPager =>
        /\ position >= 0 /\ position' >= 0
        /\ (op.name = "__init__" => InRange)
        /\ (op'.name \in NavNames \cup {"append"} => InRange')
        /\ (op'.name \in {"content", "update"} => position' = position)
        /\ (op'.name \notin {"content", "update"} /\ InRange => InRange')]_vars

\* a replacement by a shorter buffer has left position above bottom
C2_Witness ==
    /\ IsPager
    /\ op.name \in {"content", "update"}
    /\ position > SpecBottom

(* C3: bottom equals max(0, N - H) for every buffer length N and visible   *)
(* height H: in every state of a constructed pager (the empty buffer       *)
(* included), and on the object as it is before any content was assigned.  *)
C3_BottomIsMaxZeroNMinusH ==
    /\ IsPager => bottom(PagerSelf) = Max(0, Len(content) - visible_height)
    /\ \A h \in Heights :
           bottom(pager_blank(PAGER_VI_KEYSET, h, MaxWidth)) = Max(0, 0 - h)

\* an empty buffer in a window that shows rows
C3_Witness ==
    /\ IsPager
    /\ content = <<>>
    /\ visible_height > 0
    /\ op.name = "content"

(* C4: a navigation call returns the full-viewport refresh, which is not   *)
(* the empty string, if and only if it changed position, and the empty     *)
(* string otherwise; move_up at position 0 and move_down at bottom return  *)
(* the empty string and leave position unchanged.                          *)
C4_NavigationRendersIffMoved ==
    [][(IsPager /\ op'.name \in NavNames) =>
        /\ (position' # position) <=> (rstr' # Empty)
        /\ rstr' # Empty => rstr' = FullRefresh'
        /\ (op'.name = "move_up" /\ position = 0)
               => (rstr' = Empty /\ position' = position)
        /\ (op'.name = "move_down" /\ position = SpecBottom)
               => (rstr' = Empty /\ position' = position)]_vars

\* a move_down at the bottom that returned the empty string
C4_Witness ==
    /\ IsPager
    /\ op.name = "move_down"
    /\ position = SpecBottom
    /\ position > 0
    /\ ~moved
    /\ rstr = Empty

(* C5: once a move_pgdown call has left position at bottom, every further  *)
(* move_pgdown call returns the empty string and leaves position           *)
(* unchanged.                                                              *)
C5_PgdownIdempotentAtBottom ==
    [][(/\ IsPager
        /\ op.name = "move_pgdown"
        /\ position = SpecBottom
        /\ op'.name = "move_pgdown")
       => (rstr' = Empty /\ position' = position)]_vars

\* a second page-down, after one that had moved the view to the bottom
C5_Witness ==
    /\ IsPager
    /\ op.name = "move_pgdown"
    /\ position = SpecBottom
    /\ SpecBottom > 0
    /\ position_last = position
    /\ ~moved
    /\ rstr = Empty

(* C6: move_home leaves position 0, and a move_end that follows it leaves  *)
(* position at bottom, for every buffer length and viewport height.        *)
C6_HomeThenEnd ==
    [][IsPager =>
        /\ op'.name = "move_home" => position' = 0
        /\ (op.name = "move_home" /\ op'.name = "move_end")
               => position' = SpecBottom']_vars

\* move_end has taken the view from the top to a bottom below it
C6_Witness ==
    /\ IsPager
    /\ op.name = "move_end"
    /\ position_last = 0
    /\ position = SpecBottom
    /\ SpecBottom > 0
    /\ rstr = FullRefresh

(* C7, as stated: whenever the buffer has no more lines than the viewport  *)
(* height, in any reachable state every navigation call returns the empty  *)
(* string and leaves position unchanged.  After a content replacement has  *)
(* left position above 0 the first navigation call moves it back.          *)
C7_Original ==
    [][(IsPager /\ Len(content) <= visible_height /\ op'.name \in NavNames)
       => (rstr' = Empty /\ position' = position)]_vars

(* C7, amended: whenever the buffer has no more lines than the viewport    *)
(* height and position is within [0, bottom], that is 0, every navigation  *)
(* call returns the empty string and leaves position unchanged, while      *)
(* refresh returns a render; from a position left above bottom by a        *)
(* content replacement, the navigation call moves position to 0 and        *)
(* returns the full refresh.                                               *)
C7_ShortBufferNavigationNoOp ==
    [][(IsPager /\ Len(content) <= visible_height) =>
        /\ (op'.name \in NavNames /\ position = 0)
               => (rstr' = Empty /\ position' = position)
        /\ (op'.name \in NavNames /\ position > 0)
               => (rstr' = FullRefresh' /\ position' = 0)
        /\ op'.name = "refresh" => rstr' # Empty]_vars

\* a navigation call on a one-page buffer that did nothing
C7_Witness ==
    /\ IsPager
    /\ op.name \in NavNames
    /\ content # <<>>
    /\ Len(content) <= visible_height
    /\ position = 0
    /\ position_last = 0
    /\ rstr = Empty

\* the rows a render string draws
RenderedRows(str) == {str[k].row : k \in {i \in 1..Len(str) : str[i].kind = "row"}}

(* C8, as stated: append returns move_end's full refresh when position     *)
(* changed; when it did not, the render covers every viewport row that a   *)
(* newly appended line occupies and no row that shows the same line as     *)
(* before the append.  The code renders from row number self.bottom, a     *)
(* buffer position, instead.                                               *)
C8_Original ==
    [][(IsPager /\ op'.name = "append") =>
        LET before == visible_content(PagerSelf)
            after == visible_content(PagerSelf')
            rows == 0..(visible_height - 1)
            fresh == {r \in rows : /\ position' + r >= Len(content)
                                   /\ position' + r < Len(content')}
            same == {r \in rows : /\ r < Len(before)
                                  /\ r < Len(after)
                                  /\ before[r + 1] = after[r + 1]}
        IN /\ position' # position => rstr' = FullRefresh'
           /\ position' = position
                  => /\ fresh \subseteq RenderedRows(rstr')
                     /\ RenderedRows(rstr') \cap same = {}]_vars

(* C9: an append after which the buffer has at most visible_height lines   *)
(* leaves position unchanged, unless position was greater than the new     *)
(* bottom before the call.                                                 *)
C9_AppendWithinPageKeepsPosition ==
    [][(/\ IsPager
        /\ op'.name = "append"
        /\ Len(content') <= visible_height
        /\ ~(position > SpecBottom'))
       => position' = position]_vars

\* an append that filled the page exactly and left the view at the top
C9_Witness ==
    /\ IsPager
    /\ op.name = "append"
    /\ Len(content) = visible_height
    /\ Len(content) >= 2
    /\ position = 0
    /\ position_last = 0
    /\ RenderedRows(rstr) # {}

\* the order in which process_keystroke tests the actions
PagerOrder == <<"refresh", "up", "down", "home", "end", "pgup", "pgdown", "exit">>

SelectorOrder == <<"refresh", "left", "right", "toggle", "exit", "enter">>

\* the actions of order whose list in ks holds code
BoundTo(ks, order, code) == {i \in 1..Len(order) : InList(code, ks[order[i]])}

\* the earliest of them, "none" when there is none
FirstMatch(ks, order, code) ==
    LET bound == BoundTo(ks, order, code)
    IN IF bound = {} THEN "none"
       ELSE order[CHOOSE i \in bound : \A j \in bound : i <= j]

\* one pager action performed alone
PagerPerform(self, action) ==
    CASE action = "refresh" -> Ret(self, refresh(self, 0))
      [] action = "up" -> move_up(self, 1)
      [] action = "down" -> move_down(self, 1)
      [] action = "home" -> move_home(self)
      [] action = "end" -> move_end(self)
      [] action = "pgup" -> move_pgup(self, 1)
      [] action = "pgdown" -> move_pgdown(self, 1)
      [] action = "exit" -> Ret([self EXCEPT !.quit = TRUE], Empty)
      [] OTHER -> Ret(self, Empty)

\* one selector action performed alone
SelectorPerform(self, action) ==
    CASE action = "refresh" -> Ret(self, selector_refresh(self))
      [] action = "left" -> move_left(self)
      [] action = "right" -> move_right(self)
      [] action = "toggle" -> toggle(self)
      [] action = "exit" -> Ret([self EXCEPT !.quit = TRUE], Empty)
      [] action = "enter" -> Ret([self EXCEPT !.selected = TRUE], Empty)
      [] OTHER -> Ret(self, Empty)

(* C10: process_keystroke performs exactly the earliest action, in the     *)
(* order refresh, up, down, home, end, pgup, pgdown, exit (Pager) and      *)
(* refresh, left, right, toggle, exit, enter (Selector), whose key list    *)
(* holds the event's code, and none of the later ones: the call leaves the *)
(* state and returns the string that this one action leaves and returns.   *)
(* A code also bound to exit (or enter) after an earlier action sets       *)
(* neither quit nor selected.                                              *)
C10_FirstMatchOnly ==
    [][op'.name = "process_keystroke" =>
        /\ IsPager =>
              LET first == FirstMatch(keyset, PagerOrder, ResolveCode(op'.key))
              IN /\ Ret(PagerSelf', rstr')
                        = PagerPerform([PagerSelf EXCEPT !.moved = FALSE], first)
                 /\ first # "exit" => quit' = quit
        /\ IsSelector =>
              LET first == FirstMatch(keyset, SelectorOrder, ResolveCode(op'.key))
              IN /\ Ret(SelectorSelf', rstr')
                        = SelectorPerform([SelectorSelf EXCEPT !.moved = FALSE], first)
                 /\ first # "exit" => quit' = quit
                 /\ first # "enter" => selected' = selected]_vars

\* "j", bound to down and to exit, has scrolled down and not quit
C10_Witness ==
    /\ IsPager
    /\ op.name = "process_keystroke"
    /\ ResolveCode(op.key) = "j"
    /\ Cardinality(BoundTo(keyset, PagerOrder, "j")) = 2
    /\ moved
    /\ position = position_last + 1
    /\ ~quit

-----------------------------------------------------------------------------
(* C11: for both widgets, process_keystroke on an event whose code is in   *)
(* none of the key set's action lists returns the empty string, raises no  *)
(* error and leaves the state unchanged: the line buffer, position and     *)
(* quit of a Pager; selection, selected and quit of a Selector.            *)
C11_UnmatchedKeystrokeIgnored ==
    [][op'.name = "process_keystroke" =>
        /\ (IsPager /\ BoundTo(keyset, PagerOrder, ResolveCode(op'.key)) = {})
              => /\ rstr' = Empty
                 /\ raised' = NoError
                 /\ content' = content
                 /\ position' = position
                 /\ quit' = quit
        /\ (IsSelector /\ BoundTo(keyset, SelectorOrder, ResolveCode(op'.key)) = {})
              => /\ rstr' = Empty
                 /\ raised' = NoError
                 /\ selection' = selection
                 /\ selected' = selected
                 /\ quit' = quit]_vars

\* a named key bound to nothing was fed to a selector standing on its right
C11_Witness ==
    /\ IsSelector
    /\ op.name = "process_keystroke"
    /\ op.key = NamedKey(KEY_UP)
    /\ BoundTo(keyset, SelectorOrder, KEY_UP) = {}
    /\ selection = right
    /\ left # right
    /\ ~selected
    /\ ~quit
    /\ rstr = Empty

\* the action the widget's process_keystroke resolves an event to
Resolved(key) ==
    IF IsPager THEN FirstMatch(keyset, PagerOrder, ResolveCode(key))
    ELSE FirstMatch(keyset, SelectorOrder, ResolveCode(key))

\* the actions that end the widget's read loop
TerminalActions == IF IsPager THEN {"exit"} ELSE {"exit", "enter"}

(* C12: a blocked read() returns right after processing the first event    *)
(* resolved to exit (Pager) or to enter or exit (Selector) and on no other *)
(* event, so it never returns while no such event is delivered; when the   *)
(* input source eventually delivers such an event, read() returns.         *)
C12_ReadReturnsOnTerminalKey ==
    /\ [][reading =>
            /\ op'.name = "process_keystroke"
            /\ reading' = (Resolved(op'.key) \notin TerminalActions)]_vars
    /\ (reading ~> ~reading)

\* a Pager read() that went on after a scrolling key has returned on exit
C12_Witness ==
    /\ IsPager
    /\ ~reading
    /\ retval = ReturnedNone
    /\ op.name = "process_keystroke"
    /\ Resolved(op.key) = "exit"
    /\ quit
    /\ position > 0

(* C13, as stated: in every reachable Selector state, after any sequence   *)
(* of toggle, move_left, move_right, process_keystroke, read and           *)
(* assignments to selection, left and right, selection equals the current  *)
(* left or the current right endpoint.  The left and right setters store   *)
(* the new endpoint and leave selection as it was.                         *)
C13_Original ==
    IsSelector => selection \in {left, right}

(* C14: assigning to selection a value that is neither the left nor the    *)
(* right endpoint raises the assertion's error, and leaves selection, the  *)
(* moved flag, selected and quit unchanged.                                *)
C14_InvalidSelectionRejected ==
    [][(IsSelector /\ op'.name = "selection" /\ op'.value \notin {left, right})
       => /\ raised' = "AssertionError"
          /\ selection' = selection
          /\ moved' = moved
          /\ selected' = selected
          /\ quit' = quit]_vars

\* a value that is no endpoint was refused by a selector standing on its right
C14_Witness ==
    /\ IsSelector
    /\ op.name = "selection"
    /\ op.value = "Maybe"
    /\ raised = "AssertionError"
    /\ "Maybe" \notin {left, right}
    /\ selection = right
    /\ left # right

(* C15, as stated: from any reachable Selector state a single toggle()     *)
(* moves selection to the other endpoint and returns a non-empty render,   *)
(* and toggle() followed by toggle() restores the original selection.      *)
(* From a selection that an endpoint assignment has left on neither        *)
(* endpoint, the two toggles end on the right endpoint.                    *)
C15_Original ==
    IsSelector =>
        LET once == toggle(SelectorSelf)
            twice == toggle(once.self)
        IN /\ once.rstr # Empty
           /\ selection = left => once.self.selection = right
           /\ selection = right => once.self.selection = left
           /\ twice.self.selection = selection

(* C16, as stated: move_left() / move_right() leave selection equal to the *)
(* named endpoint and return a non-empty render if and only if selection   *)
(* changed; a move_right() issued right after a move_left() that returned  *)
(* the empty string returns a non-empty render, and symmetrically.  With   *)
(* two equal endpoints both calls return the empty string.                 *)
C16_Original ==
    [][IsSelector =>
        /\ op'.name = "move_left"
               => /\ selection' = left
                  /\ (rstr' # Empty) <=> (selection' # selection)
        /\ op'.name = "move_right"
               => /\ selection' = right
                  /\ (rstr' # Empty) <=> (selection' # selection)
        /\ (op.name = "move_left" /\ rstr = Empty /\ op'.name = "move_right")
               => rstr' # Empty
        /\ (op.name = "move_right" /\ rstr = Empty /\ op'.name = "move_left")
               => rstr' # Empty]_vars

(* C16, amended: move_left() / move_right() leave selection equal to the   *)
(* named endpoint and return a non-empty render if and only if selection   *)
(* changed; a move_right() issued right after a move_left() that returned  *)
(* the empty string returns a non-empty render exactly when the two        *)
(* endpoints differ, and symmetrically.                                    *)
C16_MoveToEndpoint ==
    [][IsSelector =>
        /\ op'.name = "move_left"
               => /\ selection' = left
                  /\ (rstr' # Empty) <=> (selection' # selection)
        /\ op'.name = "move_right"
               => /\ selection' = right
                  /\ (rstr' # Empty) <=> (selection' # selection)
        /\ (op.name = "move_left" /\ rstr = Empty /\ op'.name = "move_right")
               => ((rstr' # Empty) <=> (left # right))
        /\ (op.name = "move_right" /\ rstr = Empty /\ op'.name = "move_left")
               => ((rstr' # Empty) <=> (left # right))]_vars

\* move_right() has taken the selection from the left endpoint to the right
C16_Witness ==
    /\ IsSelector
    /\ op.name = "move_right"
    /\ left # right
    /\ selection = right
    /\ moved
    /\ rstr = selector_refresh(SelectorSelf)

(* C17: Selector.read() returns only when exactly one of selected and quit *)
(* is true: the current selection when its loop ended by an enter event,   *)
(* None when it ended by an exit event; the enter and exit events do not   *)
(* change selection.                                                       *)
C17_ReadResult ==
    [][(IsSelector /\ reading /\ ~reading') =>
        /\ retval'.returned
        /\ selected' # quit'
        /\ selection' = selection
        /\ Resolved(op'.key) = "enter"
               => (selected' /\ retval' = Returned(selection))
        /\ Resolved(op'.key) = "exit"
               => (quit' /\ retval' = ReturnedNone)]_vars

\* read() has returned the right endpoint, reached by events it processed
C17_Witness ==
    /\ IsSelector
    /\ ~reading
    /\ op.name = "process_keystroke"
    /\ Resolved(op.key) = "enter"
    /\ selected
    /\ ~quit
    /\ left # right
    /\ selection = right
    /\ retval = Returned(right)

\* the halves a selector render draws with the 'selected' color
Highlighted(str) ==
    {i \in 1..Len(str) : str[i].kind = "attr" /\ str[i].attr = "selected"}

(* C18, as stated: every Selector.refresh() render draws the endpoint      *)
(* equal to the current selection with the 'selected' color and the other  *)
(* with 'unselected', so that exactly one half is highlighted, and the two *)
(* slot widths sum to width.  With a selection that is neither endpoint no *)
(* half is highlighted; with two equal endpoints both are.                 *)
C18_Original ==
    (IsSelector /\ rstr # Empty) =>
        /\ Cardinality(Highlighted(rstr)) = 1
        /\ \A i \in Highlighted(rstr) : rstr[i + 1].text = selection
        /\ rstr[4].slot + rstr[7].slot = width

\* how many times x occurs in list
Count(x, list) == Cardinality({k \in 1..Len(list) : list[k] = x})

\* the key set of the i-th instance
InstanceKeyset(i) == Deref(lists, instances[i].keyset)

(* C19, as stated: each widget instance owns an independent copy of its    *)
(* key set.  Constructing widgets with the default key set, or appending a *)
(* code to one action of one instance's key set, never changes the         *)
(* module-level VI_KEYSET tables; every instance's action lists hold each  *)
(* terminal named key exactly once; and no call changes the key set of an  *)
(* instance other than the one it constructs or appends to.  The default   *)
(* is VI_KEYSET.copy(), whose lists are the module's own.                  *)
C19_Original ==
    /\ [](/\ \A class \in Classes :
                 Deref(lists, DictOf(class, 0)) = VI_KEYSET(class)
          /\ \A i \in 1..Len(instances) :
                 \A b \in NamedBindings(instances[i].class) :
                    Count(b[2], InstanceKeyset(i)[b[1]]) = 1)
    /\ [][\A j \in 1..Len(instances) :
             op'.num # j
                => Deref(lists', instances[j].keyset) = InstanceKeyset(j)]_vars

\* the characters of a line that are not white space, in order
NonSpace(line) == SelectSeq(line, LAMBDA c : ~IsSpace(c))

\* out is, source line by source line and in their order, one empty line for
\* a blank source line and one or more lines holding all the characters of a
\* non-blank source line
RECURSIVE InSourceOrder(_, _)
InSourceOrder(out, src) ==
    IF src = <<>> THEN out = <<>>
    ELSE IF ~NonBlank(Head(src))
    THEN /\ out # <<>>
         /\ Head(out) = <<>>
         /\ InSourceOrder(Tail(out), Tail(src))
    ELSE \E k \in 1..Len(out) :
            /\ NonSpace(Join(SubSeq(out, 1, k))) = NonSpace(Head(src))
            /\ \A j \in 1..k : out[j] # <<>>
            /\ InSourceOrder(SubSeq(out, k + 1, Len(out)), Tail(src))

(* C20: the line wrapper never drops or reorders content: each empty or    *)
(* whitespace-only source line yields exactly one empty output line, each  *)
(* non-blank source line one or more output lines holding its characters,  *)
(* the output lines are in source order, and the buffer has at least as    *)
(* many lines as the text has source lines.                                *)
C20_WrapKeepsEveryLine ==
    (IsPager /\ op.name = "_content_wrap") =>
        /\ InSourceOrder(content, SplitLines(raw_text))
        /\ Len(content) >= Len(SplitLines(raw_text))

\* a text of a two-letter word split over two lines, then a blank line
C20_Witness ==
    /\ IsPager
    /\ op.name = "_content_wrap"
    /\ raw_text = <<"a", "b", "\n", " ">>
    /\ content = << <<"a">>, <<"b">>, <<>> >>

\* the words of a line: its maximal runs of characters that are not white space
RECURSIVE WordsFrom(_, _)
WordsFrom(line, cur) ==
    IF line = <<>> THEN (IF cur = <<>> THEN <<>> ELSE <<cur>>)
    ELSE IF IsSpace(Head(line))
    THEN (IF cur = <<>> THEN <<>> ELSE <<cur>>) \o WordsFrom(Tail(line), <<>>)
    ELSE WordsFrom(Tail(line), Append(cur, Head(line)))

\* the words of a list of lines, line after line
RECURSIVE AllWords(_)
AllWords(lines) ==
    IF lines = <<>> THEN <<>>
    ELSE WordsFrom(Head(lines), <<>>) \o AllWords(Tail(lines))

\* out is src with every word of at most w characters kept whole and every
\* longer word cut into consecutive pieces
RECURSIVE CutsLongWordsOnly(_, _, _)
CutsLongWordsOnly(out, src, w) ==
    IF src = <<>> THEN out = <<>>
    ELSE IF Len(Head(src)) <= w
    THEN /\ out # <<>>
         /\ Head(out) = Head(src)
         /\ CutsLongWordsOnly(Tail(out), Tail(src), w)
    ELSE \E k \in 2..Len(out) :
            /\ Join(SubSeq(out, 1, k)) = Head(src)
            /\ CutsLongWordsOnly(SubSeq(out, k + 1, Len(out)), Tail(src), w)

\* every line of the buffer is at most visible_width - 1 characters long
LinesFit == \A k \in 1..Len(content) : Len(content[k]) <= visible_width - 1

SpecSlice ==
    [k \in 1..Max(0, Min(Len(content) - position, visible_height))
        |-> content[position + k]]

(* C22: the visible content is always the slice of the line buffer that    *)
(* starts at position and has at most visible_height lines; after          *)
(* move_end() on a buffer of N >= H lines it is exactly the last H lines,  *)
(* after move_home() the first min(N, H) lines; with H = 3 and the lines   *)
(* a..e, position 2 shows c, d, e and position 0 shows a, b, c.            *)
C22_VisibleContentIsSlice ==
    IsPager =>
        LET N == Len(content)
            H == visible_height
            shown == visible_content(PagerSelf)
        IN /\ shown = SpecSlice
           /\ (op.name = "move_end" /\ N >= H) => shown = SubSeq(content, N - H + 1, N)
           /\ op.name = "move_home" => shown = SubSeq(content, 1, Min(N, H))
           /\ (H = 3 /\ content = << <<"a">>, <<"b">>, <<"c">>, <<"d">>, <<"e">> >>)
                 => /\ position = 2 => shown = << <<"c">>, <<"d">>, <<"e">> >>
                    /\ position = 0 => shown = << <<"a">>, <<"b">>, <<"c">> >>

\* move_end() on the lines a..e in a window of three rows
C22_Witness ==
    /\ IsPager
    /\ op.name = "move_end"
    /\ visible_height = 3
    /\ content = << <<"a">>, <<"b">>, <<"c">>, <<"d">>, <<"e">> >>
    /\ position = 2
    /\ moved
    /\ visible_content(PagerSelf) = << <<"c">>, <<"d">>, <<"e">> >>

C24_AppendKeepsOldLines ==
    [][(IsPager /\ op'.name = "append") =>
        \E t \in Texts :
            content' = content \o WrapLines(SplitLines(t), visible_width - 1)]_vars

\* a line wrapped for a wider window is still whole after an append made in
\* a narrower one
C24_Witness ==
    /\ IsPager
    /\ op.name = "append"
    /\ visible_width = 2
    /\ content = << <<>>, <<"a", "b">>, <<"a">> >>

(* C25: a full content replacement (content setter, update) leaves         *)
(* position unchanged, even when it exceeds the bottom of the new buffer;  *)
(* the first navigation call after the replacement leaves position within  *)
(* [0, bottom] of the new buffer.                                          *)
C25_ReplacementKeepsPosition ==
    [][IsPager =>
        /\ op'.name \in {"content", "update"} => position' = position
        /\ (op.name \in {"content", "update"} /\ op'.name \in NavNames)
              => InRange']_vars

\* a navigation call has brought back a position left above the bottom
C25_Witness ==
    /\ IsPager
    /\ op.name \in NavNames
    /\ position_last > SpecBottom
    /\ position = SpecBottom
    /\ moved

(* C26: from a position p within [0, bottom], move_pgup(n) leaves position *)
(* min(max(0, p - n*H), bottom) and move_pgdown(n) min(max(0, p + n*H),    *)
(* bottom), H being the visible height at the call; move_up(n) and         *)
(* move_down(n) do the same with a step of n lines.                        *)
C26_MovesByPagesAndLines ==
    [][(IsPager /\ InRange) =>
        LET n == op'.num
            H == visible_height
            Clamp(x) == Min(Max(0, x), SpecBottom)
        IN /\ op'.name = "move_pgup" => position' = Clamp(position - n * H)
           /\ op'.name = "move_pgdown" => position' = Clamp(position + n * H)
           /\ op'.name = "move_up" => position' = Clamp(position - n)
           /\ op'.name = "move_down" => position' = Clamp(position + n)]_vars

\* one page up, of two rows, from the bottom of a buffer of five lines
C26_Witness ==
    /\ IsPager
    /\ op.name = "move_pgup"
    /\ op.num = 1
    /\ visible_height = 2
    /\ Len(content) = 5
    /\ position_last = 3
    /\ position = 1

(* C27: a newly constructed Pager starts at position 0, whatever position  *)
(* argument and content the constructor is given: position is assigned and *)
(* clamped before the content is stored, when bottom is still 0.           *)
C27_NewPagerAtTop ==
    (IsPager /\ op.name = "__init__") => position = 0

\* constructed with position 1 and content that scrolls
C27_Witness ==
    /\ IsPager
    /\ op.name = "__init__"
    /\ position_last = 1
    /\ SpecBottom >= 1
    /\ position = 0

(* C28: after every append(text) call, from any reachable Pager state,     *)
(* position equals the bottom of the extended buffer.                      *)
C28_AppendTracksEnd ==
    [][(IsPager /\ op'.name = "append") => position' = SpecBottom']_vars

\* an append made while the view was at the top has moved it to the end
C28_Witness ==
    /\ IsPager
    /\ op.name = "append"
    /\ position_last = 0
    /\ position = 2
    /\ SpecBottom = 2
    /\ moved

\* position k of the events read is the name
ReadAt(k, name) == k \in 1..Len(irc.history) /\ irc.history[k] = name

=============================================================================
